---- MODULE Spec2Model ----
(***************************************************************************)
(* Model of the API key manager of src/api/index.js.  The file holds two   *)
(* variants of the same routes: the Supabase variant (lines 1-399, a       *)
(* remote PostgreSQL reached through supabase-js) and the SQLite variant   *)
(* (lines 400-791).  A deployment runs one of them; `variant` is drawn in  *)
(* Init and never changes.                                                 *)
(*                                                                         *)
(* Every handler is an async function: it runs up to its next `await`,     *)
(* the database executes the awaited statement at some later moment, and   *)
(* the handler continues when the answer is back.  Each handler is         *)
(* therefore a chain of steps  Begin, <stmt>Db, <stmt>Ret, ...  and the    *)
(* steps of concurrent requests interleave freely.  <stmt>Db is the        *)
(* statement taking effect in the database, <stmt>Ret is the code that     *)
(* runs after the await (it reads the clock there, as `new Date()` does).  *)
(***************************************************************************)
EXTENDS Integers, Sequences, FiniteSets, TLC

(* ------------------------------ bounds -------------------------------- *)
\* request slots: how many requests can be in flight together
MaxReq == 2
\* how many register / mark-deleted requests are started in one behaviour
MaxWrites == 3
\* how many times the clock advances
MaxTime == 2
\* how many storage statements fail in one behaviour
MaxFaults == 1
\* the clock advances by this many milliseconds
TickMs == 500
\* SpecLogs: how many markDeleted requests are served, and how many seconds pass
MaxLogWrites == 102
MaxLogTicks == 1

\* Date.prototype.toISOString keeps milliseconds, CURRENT_TIMESTAMP seconds
MsPerSec == 1000
\* LIMIT 100 / .limit(100) of the logs query
LogLimit == 100

Variants == {"supabase", "sqlite"}
\* the keys requests name
Keys == {"a"}
\* a key registered before the behaviour starts
SeedKey == "b"
Req == 1..MaxReq
\* instants (ms) a client may give as expired_time
ExpiredInstants == {TickMs}
\* Number.NaN, the getTime() of an invalid Date
NaN == -1

\* req.body.expired_time: absent (undefined, "", 0), or a text that
\* new Date() parses to the instant ms, or to NaN
ExpiredInputs ==
  {[kind |-> "absent", ms |-> NaN], [kind |-> "text", ms |-> NaN]}
    \cup {[kind |-> "text", ms |-> t] : t \in ExpiredInstants}

(* --------------------------- time and text ---------------------------- *)
\* Date.prototype.toISOString: "YYYY-MM-DDTHH:MM:SS.sssZ", here <<seconds, ms>>
toISOString(t) == <<t \div MsPerSec, t % MsPerSec>>

\* new Date(text) of an ISO text written by toISOString
NewDate(iso) == iso[1] * MsPerSec + iso[2]

\* SQLite's CURRENT_TIMESTAMP: "YYYY-MM-DD HH:MM:SS" (UTC), here <<seconds>>
CURRENT_TIMESTAMP(t) == <<t \div MsPerSec>>

\* text order of two timestamps of one format (what ORDER BY time compares)
TimeLess(a, b) ==
  \/ a[1] < b[1]
  \/ a[1] = b[1] /\ Len(a) > 1 /\ a[2] < b[2]

(* ------------------------------- state -------------------------------- *)
VARIABLES
  variant,        \* which of the two apps is deployed
  now,            \* the wall clock, ms
  api_keys,       \* table api_keys: a set of rows
  activity_logs,  \* table activity_logs: rows in insertion (id) order
  req,            \* the requests in flight, one per slot
  writes,         \* register / mark-deleted requests started so far
  faults,         \* storage statements that failed so far
  hist            \* per key: what has been answered so far (history)

vars == <<variant, now, api_keys, activity_logs, req, writes, faults, hist>>

\* history of a key, kept for the properties only (no handler reads it):
\* whether a valid register request was begun, register requests answered 200,
\* whether a statement of a register request failed, whether a markDeleted
\* request was begun / answered 200, the instant given to the register
\* answered 200, whether the key was purged and not registered since
NoHist ==
  [added |-> FALSE, ok |-> 0, faulted |-> FALSE, delBegun |-> FALSE,
   deleted |-> FALSE, expiredAt |-> NaN, purged |-> FALSE]

\* the part of a key's history a request remembers from its first statement
NoSeen == [delBegun |-> FALSE, deleted |-> FALSE, expiredAt |-> NaN, purged |-> FALSE]

Seen(h) ==
  [delBegun |-> h.delBegun, deleted |-> h.deleted, expiredAt |-> h.expiredAt,
   purged |-> h.purged]

\* req.body of a request that is not a register: no api_key, no expired_time
NoBody == [api_key |-> "", expired_time |-> [kind |-> "absent", ms |-> NaN]]

\* a free slot.  body is the req.body a register came with (api_key keeps the
\* key of the other requests).  existed, seen and count are history too: whether the key had
\* a row, the key's history and the length of activity_logs when the
\* request's first statement ran
Idle ==
  [op |-> "idle", pc |-> "idle", api_key |-> "", expiredDate |-> NaN,
   rows |-> {}, error |-> "", t |-> 0, code |-> 0, status |-> "",
   logs |-> <<>>, keys |-> {}, faulted |-> FALSE, body |-> NoBody,
   existed |-> FALSE, seen |-> NoSeen, count |-> 0]

\* the text of the instant t as the deployed variant stores created_at and time
Stamp(t) == IF variant = "supabase" THEN toISOString(t) ELSE CURRENT_TIMESTAMP(t)

\* the tables are new (CREATE TABLE IF NOT EXISTS on an empty database), or
\* hold SeedKey, registered by an earlier run at instant 0
Init ==
  /\ variant \in Variants
  /\ now = 0
  /\ \E seeded \in BOOLEAN :
       /\ api_keys = IF seeded
                     THEN {[api_key |-> SeedKey, expired |-> toISOString(TickMs),
                            created_at |-> Stamp(0), deleted |-> FALSE]}
                     ELSE {}
       /\ activity_logs = IF seeded
                          THEN <<[id |-> 1, action |-> "add", api_key |-> SeedKey,
                                  time |-> Stamp(0)]>>
                          ELSE <<>>
  /\ req = [r \in Req |-> Idle]
  /\ writes = 0
  /\ faults = 0
  /\ hist = [k \in Keys |-> NoHist]

(* ----------------------------- the tables ----------------------------- *)
\* SELECT ... FROM api_keys WHERE api_key = ?
SelectKey(k) == {row \in api_keys : row.api_key = k}

\* .single(): the one row, or no data when the result is not exactly one row
Single(rows) == IF Cardinality(rows) = 1 THEN rows ELSE {}

\* mutant: api_keys.api_key without its UNIQUE constraint
NoUniqueConstraint(k) == FALSE

\* the UNIQUE constraint on api_keys.api_key
UniqueViolation(k) == SelectKey(k) # {}

\* the row an INSERT INTO api_keys stores (deleted: false / DEFAULT 0)
KeyRow(k, expired, created_at) ==
  [api_key |-> k, expired |-> expired, created_at |-> created_at, deleted |-> FALSE]

\* INSERT INTO api_keys: the table with the new row
InsertKey(k, expired, created_at) == api_keys \cup {KeyRow(k, expired, created_at)}

\* mutant: the UPDATE flips the flag instead of setting it
UpdateDeletedToggle(k) ==
  {IF row.api_key = k THEN [row EXCEPT !.deleted = ~@] ELSE row : row \in api_keys}

\* mutant: the UPDATE also rewrites the row's expiration
UpdateDeletedTouch(k) ==
  {IF row.api_key = k THEN [row EXCEPT !.deleted = TRUE, !.expired = toISOString(now)]
   ELSE row : row \in api_keys}

\* UPDATE api_keys SET deleted = 1 WHERE api_key = ?
UpdateDeleted(k) ==
  {IF row.api_key = k THEN [row EXCEPT !.deleted = TRUE] ELSE row : row \in api_keys}

\* INSERT INTO activity_logs: the table with the new row at its end
InsertLog(log, action, k, time) ==
  Append(log, [id |-> Len(log) + 1, action |-> action, api_key |-> k, time |-> time])

\* whether this statement fails: any statement may, MaxFaults times in all
FaultChoices == IF faults < MaxFaults THEN {FALSE, TRUE} ELSE {FALSE}

\* res.status(code).json({status: ...}): the handler is over, its locals are gone
Respond(q, code, status) ==
  [q EXCEPT !.pc = "done", !.code = code, !.status = status,
            !.rows = {}, !.error = "", !.t = 0, !.expiredDate = NaN]

\* the answer of GET /api/get/:key; the row read and the instant it was
\* compared at are kept beside the answer
RespondGet(q, code, status) == [q EXCEPT !.pc = "done", !.code = code, !.status = status]


\* one step of request r: everything but r's slot and what the step names stays
Others(r, q) == [req EXCEPT ![r] = q]

(* ------------------------ POST /api/add (register) --------------------- *)
\* mutant: the handler without its `isNaN(expiredDate.getTime())` check
AddBeginDateUnchecked(r, k, e) ==
  /\ req[r].op = "idle"
  /\ writes < MaxWrites
  /\ writes' = writes + 1
  /\ LET q == [Idle EXCEPT !.op = "add", !.api_key = k,
                           !.body = [api_key |-> k, expired_time |-> e],
                           !.existed = (\E row \in api_keys : row.api_key = k)]
     IN /\ req' = Others(r,
              IF k = "" \/ e.kind = "absent" THEN Respond(q, 400, "error")
              ELSE [q EXCEPT !.expiredDate = e.ms,
                             !.pc = IF variant = "supabase" THEN "lookup" ELSE "insert"])
        /\ hist' = IF k # "" THEN [hist EXCEPT ![k].added = TRUE] ELSE hist
  /\ UNCHANGED <<variant, now, api_keys, activity_logs, faults>>

\* validation, up to the first await: the lookup (Supabase) or the INSERT (SQLite)
AddBegin(r, k, e) ==
  /\ req[r].op = "idle"
  /\ writes < MaxWrites
  /\ writes' = writes + 1
  /\ LET q == [Idle EXCEPT !.op = "add", !.api_key = k,
                           !.body = [api_key |-> k, expired_time |-> e],
                           !.existed = (\E row \in api_keys : row.api_key = k)]
         valid == k # "" /\ e.kind # "absent" /\ e.ms # NaN
     IN /\ req' = Others(r,
              IF k = "" \/ e.kind = "absent" THEN Respond(q, 400, "error")
              ELSE IF e.ms = NaN THEN Respond(q, 400, "error")
              ELSE [q EXCEPT !.expiredDate = e.ms,
                             !.pc = IF variant = "supabase" THEN "lookup" ELSE "insert"])
        /\ hist' = IF valid THEN [hist EXCEPT ![k].added = TRUE] ELSE hist
  /\ UNCHANGED <<variant, now, api_keys, activity_logs, faults>>

\* Supabase: select('api_key').eq('api_key', api_key).single() is executed
AddLookupDb(r) ==
  /\ req[r].op = "add" /\ req[r].pc = "lookup"
  /\ \E f \in FaultChoices :
       /\ req' = Others(r, [req[r] EXCEPT
                   !.pc = "lookup_ret",
                   !.rows = IF f THEN {} ELSE Single(SelectKey(req[r].api_key)),
                   !.faulted = @ \/ f])
       /\ faults' = IF f THEN faults + 1 ELSE faults
       /\ hist' = IF f THEN [hist EXCEPT ![req[r].api_key].faulted = TRUE] ELSE hist
  /\ UNCHANGED <<variant, now, api_keys, activity_logs, writes>>

\* Supabase: `if (existingKey)` answers 409; else the row to insert is built,
\* with created_at: new Date().toISOString()
AddLookupRet(r) ==
  /\ req[r].op = "add" /\ req[r].pc = "lookup_ret"
  /\ req' = Others(r,
       IF req[r].rows # {} THEN Respond(req[r], 409, "error")
       ELSE [req[r] EXCEPT !.pc = "insert", !.t = now])
  /\ UNCHANGED <<variant, now, api_keys, activity_logs, writes, faults, hist>>

\* the INSERT into api_keys is executed: it fails on the UNIQUE constraint
\* (PostgreSQL code 23505, SQLite message "... UNIQUE constraint failed ..."),
\* or for another reason, or stores the row
AddInsertDb(r) ==
  /\ req[r].op = "add" /\ req[r].pc = "insert"
  /\ LET k == req[r].api_key
         created == IF variant = "supabase" THEN toISOString(req[r].t)
                    ELSE CURRENT_TIMESTAMP(now)
     IN \E f \in FaultChoices :
          LET err == IF f THEN "other"
                     ELSE IF UniqueViolation(k) THEN "unique" ELSE ""
              expired == toISOString(req[r].expiredDate)
          IN /\ api_keys' = IF err = "" THEN InsertKey(k, expired, created) ELSE api_keys
             /\ req' = Others(r, [req[r] EXCEPT !.pc = "insert_ret", !.error = err,
                                                !.rows = IF err = "" THEN {KeyRow(k, expired, created)} ELSE {},
                                                !.faulted = @ \/ f])
             /\ faults' = IF f THEN faults + 1 ELSE faults
             /\ hist' = IF f THEN [hist EXCEPT ![k].faulted = TRUE] ELSE hist
  /\ UNCHANGED <<variant, now, activity_logs, writes>>

\* mutant: a unique violation is not told from the other errors
AddInsertRetUnmapped(r) ==
  /\ req[r].op = "add" /\ req[r].pc = "insert_ret"
  /\ req' = Others(r,
       IF req[r].error # "" THEN Respond(req[r], 500, "error")
       ELSE [req[r] EXCEPT !.pc = "log", !.t = now])
  /\ UNCHANGED <<variant, now, api_keys, activity_logs, writes, faults, hist>>

\* after the INSERT: `if (error) throw error` and the catch blocks (409 for a
\* unique violation, 500 otherwise); else the log row is built
\* (Supabase: time: new Date().toISOString()) and its INSERT awaited
AddInsertRet(r) ==
  /\ req[r].op = "add" /\ req[r].pc = "insert_ret"
  /\ req' = Others(r,
       IF req[r].error = "unique" THEN Respond(req[r], 409, "error")
       ELSE IF req[r].error # "" THEN Respond(req[r], 500, "error")
       ELSE [req[r] EXCEPT !.pc = "log", !.t = now])
  /\ UNCHANGED <<variant, now, api_keys, activity_logs, writes, faults, hist>>

\* the INSERT into activity_logs is executed
AddLogDb(r) ==
  /\ req[r].op = "add" /\ req[r].pc = "log"
  /\ LET k == req[r].api_key
         time == IF variant = "supabase" THEN toISOString(req[r].t)
                 ELSE CURRENT_TIMESTAMP(now)
     IN \E f \in FaultChoices :
          /\ activity_logs' = IF f THEN activity_logs
                              ELSE InsertLog(activity_logs, "add", k, time)
          /\ req' = Others(r, [req[r] EXCEPT !.pc = "log_ret",
                                             !.error = IF f THEN "other" ELSE "",
                                             !.faulted = @ \/ f])
          /\ faults' = IF f THEN faults + 1 ELSE faults
          /\ hist' = IF f THEN [hist EXCEPT ![k].faulted = TRUE] ELSE hist
  /\ UNCHANGED <<variant, now, api_keys, writes>>

\* what the handler does with the outcome of the log INSERT.  Supabase: the
\* awaited result is not looked at (supabase-js returns {error}, it does not
\* throw).  SQLite: run() rejects, the message holds no "UNIQUE": rethrown, 500.
AddLogError(q) == IF variant = "supabase" THEN "" ELSE q.error

\* the answer to the register request
AddLogRet(r) ==
  /\ req[r].op = "add" /\ req[r].pc = "log_ret"
  /\ LET k == req[r].api_key
         err == AddLogError(req[r])
     IN /\ req' = Others(r,
              IF err = "unique" THEN Respond(req[r], 409, "error")
              ELSE IF err # "" THEN Respond(req[r], 500, "error")
              ELSE Respond(req[r], 200, "success"))
        /\ hist' = IF err = ""
                   THEN [hist EXCEPT ![k].ok = @ + 1, ![k].expiredAt = req[r].expiredDate]
                   ELSE hist
  /\ UNCHANGED <<variant, now, api_keys, activity_logs, writes, faults>>


(* ----------------------- GET /api/get/:key (resolve) ------------------- *)
\* the request arrives and its SELECT is executed (Supabase: .single()); the
\* handler does nothing before it but read the route parameter
GetDb(r, k) ==
  /\ req[r].op = "idle"
  /\ \E f \in FaultChoices :
       /\ req' = Others(r, [Idle EXCEPT
                   !.op = "get", !.api_key = k,
                   !.existed = (\E row \in api_keys : row.api_key = k),
                   !.seen = Seen(hist[k]),
                   !.pc = "select_ret",
                   !.error = IF f THEN "other" ELSE "",
                   !.rows = IF f THEN {}
                            ELSE IF variant = "supabase" THEN Single(SelectKey(k))
                            ELSE SelectKey(k),
                   !.faulted = f])
       /\ faults' = IF f THEN faults + 1 ELSE faults
  /\ UNCHANGED <<variant, now, api_keys, activity_logs, writes, hist>>

\* mutant: the expiration is looked at before the deleted flag
RowStatusExpiredFirst(row, t) ==
  IF t > NewDate(row.expired) THEN "expired"
  ELSE IF row.deleted THEN "deleted"
  ELSE "valid"

\* mutant: a key expires at its expiration instant, not after it
RowStatusInclusive(row, t) ==
  IF row.deleted THEN "deleted"
  ELSE IF t >= NewDate(row.expired) THEN "expired"
  ELSE "valid"

\* the status of a row at the instant t: deleted, then expired (now > expiredTime)
RowStatus(row, t) ==
  IF row.deleted THEN "deleted"
  ELSE IF t > NewDate(row.expired) THEN "expired"
  ELSE "valid"

\* how a failed SELECT is answered.  Supabase: `if (error || !data)` answers
\* 404 invalid.  SQLite: query() rejects, the catch answers 500.
GetError(q) ==
  IF variant = "supabase" THEN RespondGet(q, 404, "invalid") ELSE RespondGet(q, 500, "error")

\* the answer: 404 invalid for no row, else the row's status at `new Date()`
GetRet(r) ==
  /\ req[r].op = "get" /\ req[r].pc = "select_ret"
  /\ req' = Others(r,
       LET q == [req[r] EXCEPT !.t = now] IN
       IF req[r].error # "" THEN GetError(q)
       ELSE IF req[r].rows = {} THEN RespondGet(q, 404, "invalid")
       ELSE RespondGet(q, 200, RowStatus(CHOOSE row \in req[r].rows : TRUE, now)))
  /\ UNCHANGED <<variant, now, api_keys, activity_logs, writes, faults, hist>>

(* ------------------ POST /api/deleted/:key (markDeleted) --------------- *)
\* up to the first await: the lookup (Supabase) or the UPDATE (SQLite)
DeletedBegin(r, k) ==
  /\ req[r].op = "idle"
  /\ writes < MaxWrites
  /\ writes' = writes + 1
  /\ req' = Others(r, [Idle EXCEPT !.op = "deleted", !.api_key = k,
                                   !.pc = IF variant = "supabase" THEN "lookup" ELSE "update",
                                   !.existed = (\E row \in api_keys : row.api_key = k),
                                   !.seen = Seen(hist[k])])
  /\ hist' = [hist EXCEPT ![k].delBegun = TRUE]
  /\ UNCHANGED <<variant, now, api_keys, activity_logs, faults>>

\* Supabase: select('api_key').eq('api_key', key).single() is executed
DeletedLookupDb(r) ==
  /\ req[r].op = "deleted" /\ req[r].pc = "lookup"
  /\ \E f \in FaultChoices :
       /\ req' = Others(r, [req[r] EXCEPT
                   !.pc = "lookup_ret",
                   !.rows = IF f THEN {} ELSE Single(SelectKey(req[r].api_key)),
                   !.faulted = @ \/ f])
       /\ faults' = IF f THEN faults + 1 ELSE faults
  /\ UNCHANGED <<variant, now, api_keys, activity_logs, writes, hist>>

\* Supabase: `if (!existingKey)` answers 404; else the UPDATE is awaited
DeletedLookupRet(r) ==
  /\ req[r].op = "deleted" /\ req[r].pc = "lookup_ret"
  /\ req' = Others(r,
       IF req[r].rows = {} THEN Respond(req[r], 404, "error")
       ELSE [req[r] EXCEPT !.pc = "update"])
  /\ UNCHANGED <<variant, now, api_keys, activity_logs, writes, faults, hist>>

\* the UPDATE is executed; rows keeps the rows it matched (SQLite: this.changes)
DeletedUpdateDb(r) ==
  /\ req[r].op = "deleted" /\ req[r].pc = "update"
  /\ LET k == req[r].api_key IN
     \E f \in FaultChoices :
       /\ api_keys' = IF f THEN api_keys ELSE UpdateDeleted(k)
       /\ req' = Others(r, [req[r] EXCEPT !.pc = "update_ret",
                                          !.error = IF f THEN "other" ELSE "",
                                          !.rows = IF f THEN {} ELSE SelectKey(k),
                                          !.faulted = @ \/ f])
       /\ faults' = IF f THEN faults + 1 ELSE faults
  /\ UNCHANGED <<variant, now, activity_logs, writes, hist>>

\* after the UPDATE: an error is thrown (500); SQLite answers 404 when
\* result.changes === 0; else the log row is built and its INSERT awaited
DeletedUpdateRet(r) ==
  /\ req[r].op = "deleted" /\ req[r].pc = "update_ret"
  /\ req' = Others(r,
       IF req[r].error # "" THEN Respond(req[r], 500, "error")
       ELSE IF variant = "sqlite" /\ Cardinality(req[r].rows) = 0
         THEN Respond(req[r], 404, "error")
       ELSE [req[r] EXCEPT !.pc = "log", !.t = now])
  /\ UNCHANGED <<variant, now, api_keys, activity_logs, writes, faults, hist>>

\* the INSERT into activity_logs is executed
DeletedLogDb(r) ==
  /\ req[r].op = "deleted" /\ req[r].pc = "log"
  /\ LET k == req[r].api_key
         time == IF variant = "supabase" THEN toISOString(req[r].t)
                 ELSE CURRENT_TIMESTAMP(now)
     IN \E f \in FaultChoices :
          /\ activity_logs' = IF f THEN activity_logs
                              ELSE InsertLog(activity_logs, "deleted", k, time)
          /\ req' = Others(r, [req[r] EXCEPT !.pc = "log_ret",
                                             !.error = IF f THEN "other" ELSE "",
                                             !.faulted = @ \/ f])
          /\ faults' = IF f THEN faults + 1 ELSE faults
  /\ UNCHANGED <<variant, now, api_keys, writes, hist>>

\* what the handler does with the outcome of the log INSERT: Supabase does
\* not look at it, SQLite's run() rejects and the catch answers 500
DeletedLogError(q) == IF variant = "supabase" THEN "" ELSE q.error

\* the answer to the markDeleted request
DeletedLogRet(r) ==
  /\ req[r].op = "deleted" /\ req[r].pc = "log_ret"
  /\ LET err == DeletedLogError(req[r]) IN
       /\ req' = Others(r, IF err # "" THEN Respond(req[r], 500, "error")
                           ELSE Respond(req[r], 200, "success"))
       /\ hist' = IF err = "" THEN [hist EXCEPT ![req[r].api_key].deleted = TRUE] ELSE hist
  /\ UNCHANGED <<variant, now, api_keys, activity_logs, writes, faults>>


(* ------------------------- GET /api/logs (listLogs) -------------------- *)
\* rows of equal time have no order of their own in ORDER BY time DESC: the
\* database may give them in insertion order or against it
TieOrders == {"asc", "desc"}

\* the latest of a non-empty set of times
MaxTimeOf(times) == CHOOSE m \in times : \A x \in times : ~TimeLess(m, x)

\* the rows of log in insertion order / against it
InTieOrder(log, tie) ==
  IF tie = "asc" THEN log ELSE [i \in 1..Len(log) |-> log[Len(log) + 1 - i]]

\* ORDER BY time DESC over rows already in their tie order: the rows of the
\* latest time first, then those of the next time, ...
RECURSIVE OrderByTimeDesc(_, _)
OrderByTimeDesc(rows, times) ==
  IF times = {} THEN <<>>
  ELSE LET m == MaxTimeOf(times)
           AtM(row) == row.time = m
       IN SelectSeq(rows, AtM) \o OrderByTimeDesc(rows, times \ {m})

\* LIMIT n
Limit(rows, n) == IF Len(rows) <= n THEN rows ELSE SubSeq(rows, 1, n)

\* mutant: the query without its LIMIT
OrderByTimeDescNoLimit(log, n, tie) ==
  OrderByTimeDesc(InTieOrder(log, tie), {log[i].time : i \in 1..Len(log)})

\* SELECT ... FROM activity_logs ORDER BY time DESC LIMIT n
OrderByTimeDescLimit(log, n, tie) ==
  Limit(OrderByTimeDesc(InTieOrder(log, tie), {log[i].time : i \in 1..Len(log)}), n)

\* the columns a logs row is answered with: Supabase select('*'), SQLite
\* SELECT action, api_key, time
LogColumns(row) ==
  IF variant = "supabase" THEN row
  ELSE [action |-> row.action, api_key |-> row.api_key, time |-> row.time]

\* the request arrives and its query is executed
LogsDb(r) ==
  /\ req[r].op = "idle"
  /\ \E f \in FaultChoices, tie \in TieOrders :
       /\ (f => tie = "asc")
       /\ req' = Others(r, [Idle EXCEPT
                   !.op = "logs",
                   !.count = Len(activity_logs),
                   !.pc = "select_ret",
                   !.error = IF f THEN "other" ELSE "",
                   !.logs = IF f THEN <<>>
                            ELSE LET out == OrderByTimeDescLimit(activity_logs, LogLimit, tie)
                                 IN [p \in 1..Len(out) |-> LogColumns(out[p])],
                   !.faulted = f])
       /\ faults' = IF f THEN faults + 1 ELSE faults
  /\ UNCHANGED <<variant, now, api_keys, activity_logs, writes, hist>>

\* res.json(data || []) / res.json(rows), or 500 when the query failed
LogsRet(r) ==
  /\ req[r].op = "logs" /\ req[r].pc = "select_ret"
  /\ req' = Others(r, IF req[r].error # "" THEN Respond(req[r], 500, "error")
                      ELSE Respond(req[r], 200, "ok"))
  /\ UNCHANGED <<variant, now, api_keys, activity_logs, writes, faults, hist>>

(* ------------------------- GET /api/keys (list keys) ------------------- *)
\* the rows the keys query selects: Supabase .eq('deleted', false), SQLite all
KeysRows == IF variant = "supabase" THEN {row \in api_keys : ~row.deleted} ELSE api_keys

\* the request arrives and its query is executed
KeysDb(r) ==
  /\ req[r].op = "idle"
  /\ \E f \in FaultChoices :
       /\ req' = Others(r, [Idle EXCEPT !.op = "keys",
                                        !.pc = "select_ret",
                                        !.error = IF f THEN "other" ELSE "",
                                        !.keys = IF f THEN {} ELSE KeysRows,
                                        !.faulted = f])
       /\ faults' = IF f THEN faults + 1 ELSE faults
  /\ UNCHANGED <<variant, now, api_keys, activity_logs, writes, hist>>

\* res.json(result), or 500 when the query failed
KeysRet(r) ==
  /\ req[r].op = "keys" /\ req[r].pc = "select_ret"
  /\ req' = Others(r, IF req[r].error # "" THEN Respond(req[r], 500, "error")
                      ELSE Respond(req[r], 200, "ok"))
  /\ UNCHANGED <<variant, now, api_keys, activity_logs, writes, faults, hist>>

(* ------------------------------ environment --------------------------- *)
\* time passes
Tick ==
  /\ now < MaxTime * TickMs
  /\ now' = now + TickMs
  /\ UNCHANGED <<variant, api_keys, activity_logs, req, writes, faults, hist>>

\* the client has its answer; the slot is free for the next request
Finish(r) ==
  /\ req[r].pc = "done"
  /\ req' = Others(r, Idle)
  /\ UNCHANGED <<variant, now, api_keys, activity_logs, writes, faults, hist>>

Next ==
  \/ \E r \in Req, k \in Keys \cup {""}, e \in ExpiredInputs : AddBegin(r, k, e)
  \/ \E r \in Req : AddLookupDb(r)
  \/ \E r \in Req : AddLookupRet(r)
  \/ \E r \in Req : AddInsertDb(r)
  \/ \E r \in Req : AddInsertRet(r)
  \/ \E r \in Req : AddLogDb(r)
  \/ \E r \in Req : AddLogRet(r)
  \/ \E r \in Req, k \in Keys : GetDb(r, k)
  \/ \E r \in Req : GetRet(r)
  \/ \E r \in Req, k \in Keys : DeletedBegin(r, k)
  \/ \E r \in Req : DeletedLookupDb(r)
  \/ \E r \in Req : DeletedLookupRet(r)
  \/ \E r \in Req : DeletedUpdateDb(r)
  \/ \E r \in Req : DeletedUpdateRet(r)
  \/ \E r \in Req : DeletedLogDb(r)
  \/ \E r \in Req : DeletedLogRet(r)
  \/ \E r \in Req : LogsDb(r)
  \/ \E r \in Req : LogsRet(r)
  \/ \E r \in Req : KeysDb(r)
  \/ \E r \in Req : KeysRet(r)
  \/ \E r \in Req : Finish(r)
  \/ Tick

Spec == Init /\ [][Next]_vars


(* ------------------- the log over many requests ----------------------- *)
\* A markDeleted request served alone (no other request is in flight), from
\* its first statement to its answer, with no failing statement: DeletedBegin
\* to DeletedLogRet and Finish in one step.
DeletedAlone(k) ==
  /\ \A r \in Req : req[r].op = "idle"
  /\ writes < MaxLogWrites
  /\ SelectKey(k) # {}
  /\ writes' = writes + 1
  /\ api_keys' = UpdateDeleted(k)
  /\ activity_logs' = InsertLog(activity_logs, "deleted", k, Stamp(now))
  /\ hist' = [hist EXCEPT ![k].delBegun = TRUE, ![k].deleted = TRUE]
  /\ UNCHANGED <<variant, now, req, faults>>

\* a second passes
TickSecond ==
  /\ now < MaxLogTicks * MsPerSec
  /\ now' = now + MsPerSec
  /\ UNCHANGED <<variant, api_keys, activity_logs, req, writes, faults, hist>>

\* key "a" is registered; requests are served one at a time and no statement
\* fails in this specification
InitLogs ==
  /\ variant \in Variants
  /\ now = 0
  /\ api_keys = {[api_key |-> "a", expired |-> toISOString(TickMs),
                  created_at |-> Stamp(0), deleted |-> FALSE]}
  /\ activity_logs = <<[id |-> 1, action |-> "add", api_key |-> "a", time |-> Stamp(0)]>>
  /\ req = [r \in Req |-> Idle]
  /\ writes = 0
  /\ faults = MaxFaults
  /\ hist = [k \in Keys |-> [NoHist EXCEPT !.added = TRUE, !.ok = 1, !.expiredAt = TickMs]]

NextLogs ==
  \/ DeletedAlone("a")
  \/ LogsDb(1)
  \/ LogsRet(1)
  \/ Finish(1)
  \/ TickSecond

SpecLogs == InitLogs /\ [][NextLogs]_vars

(* ---------------- the file-backed variant: hard delete ----------------- *)
(* DELETE /delete/:api_key exists only in the file-backed variants, which   *)
(* are not among the sources: neither app.get('/api') endpoint list names   *)
(* it, and both apps answer it 404 "Endpoint not found".  The handlers      *)
(* below follow the specification's sections 4.1 to 4.5: each runs from its *)
(* request to its answer in one step (synchronous load, change, rewrite),   *)
(* and leaves its answer in slot 1.                                         *)

\* appendLog (4.5): append, then drop from the front down to LogLimit
FileAppendLog(log, action, k, time) ==
  LET l == Append(log, [action |-> action, api_key |-> k, time |-> time])
  IN IF Len(l) > LogLimit THEN SubSeq(l, Len(l) - LogLimit + 1, Len(l)) ELSE l

\* mutant: purge leaves a tombstone (marks the record instead of removing it)
FilePurgeTombstone(k) ==
  {IF row.api_key = k THEN [row EXCEPT !.deleted = TRUE] ELSE row : row \in api_keys}

\* purge (4.4): the records without the record of k
FilePurgeRows(k) == {row \in api_keys : row.api_key # k}

\* register (4.2)
FileRegister(k, e) ==
  /\ writes < MaxWrites
  /\ writes' = writes + 1
  /\ LET q == [Idle EXCEPT !.op = "add", !.api_key = k,
                           !.existed = (\E row \in api_keys : row.api_key = k),
                           !.seen = IF k \in Keys THEN Seen(hist[k]) ELSE NoSeen]
         valid == k # "" /\ e.kind # "absent" /\ e.ms # NaN
         free == valid /\ SelectKey(k) = {}
     IN /\ req' = Others(1, IF ~valid THEN Respond(q, 400, "error")
                            ELSE IF ~free THEN Respond(q, 409, "error")
                            ELSE Respond(q, 200, "success"))
        /\ api_keys' = IF free THEN InsertKey(k, toISOString(e.ms), toISOString(now))
                       ELSE api_keys
        /\ activity_logs' = IF free
                            THEN FileAppendLog(activity_logs, "add", k, toISOString(now))
                            ELSE activity_logs
        /\ hist' = IF free THEN [hist EXCEPT ![k].added = TRUE, ![k].ok = 1,
                                             ![k].expiredAt = e.ms,
                                             ![k].purged = FALSE]
                   ELSE hist
  /\ UNCHANGED <<variant, now, faults>>

\* resolve (4.1)
FileResolve(k) ==
  /\ req' = Others(1,
       LET q == [Idle EXCEPT !.op = "get", !.api_key = k, !.t = now,
                             !.existed = (\E row \in api_keys : row.api_key = k),
                             !.seen = Seen(hist[k]),
                             !.rows = SelectKey(k)]
       IN IF SelectKey(k) = {} THEN RespondGet(q, 404, "invalid")
          ELSE RespondGet(q, 200, RowStatus(CHOOSE row \in SelectKey(k) : TRUE, now)))
  /\ UNCHANGED <<variant, now, api_keys, activity_logs, writes, faults, hist>>

\* markDeleted (4.3)
FileMarkDeleted(k) ==
  /\ writes < MaxWrites
  /\ writes' = writes + 1
  /\ LET q == [Idle EXCEPT !.op = "deleted", !.api_key = k,
                           !.existed = (\E row \in api_keys : row.api_key = k),
                           !.seen = Seen(hist[k])]
         found == SelectKey(k) # {}
     IN /\ req' = Others(1, IF found THEN Respond(q, 200, "success")
                            ELSE Respond(q, 404, "error"))
        /\ api_keys' = IF found THEN UpdateDeleted(k) ELSE api_keys
        /\ activity_logs' = IF found
                            THEN FileAppendLog(activity_logs, "deleted", k, toISOString(now))
                            ELSE activity_logs
        /\ hist' = IF found THEN [hist EXCEPT ![k].delBegun = TRUE, ![k].deleted = TRUE]
                   ELSE hist
  /\ UNCHANGED <<variant, now, faults>>

\* purge (4.4)
FilePurge(k) ==
  /\ writes < MaxWrites
  /\ writes' = writes + 1
  /\ LET q == [Idle EXCEPT !.op = "purge", !.api_key = k,
                           !.existed = (\E row \in api_keys : row.api_key = k),
                           !.seen = Seen(hist[k])]
         found == SelectKey(k) # {}
     IN /\ req' = Others(1, IF found THEN Respond(q, 200, "success")
                            ELSE Respond(q, 404, "error"))
        /\ api_keys' = IF found THEN FilePurgeRows(k) ELSE api_keys
        /\ activity_logs' = IF found
                            THEN FileAppendLog(activity_logs, "delete", k, toISOString(now))
                            ELSE activity_logs
        /\ hist' = IF found THEN [hist EXCEPT ![k] = [NoHist EXCEPT !.purged = TRUE]]
                   ELSE hist
  /\ UNCHANGED <<variant, now, faults>>

InitFile ==
  /\ variant = "file"
  /\ now = 0
  /\ api_keys = {}
  /\ activity_logs = <<>>
  /\ req = [r \in Req |-> Idle]
  /\ writes = 0
  /\ faults = 0
  /\ hist = [k \in Keys |-> NoHist]

NextFile ==
  \/ \E k \in Keys \cup {""}, e \in ExpiredInputs : FileRegister(k, e)
  \/ \E k \in Keys : FileResolve(k)
  \/ \E k \in Keys : FileMarkDeleted(k)
  \/ \E k \in Keys : FilePurge(k)
  \/ Tick

SpecFile == InitFile /\ [][NextFile]_vars

(* =============================== claims =============================== *)
\* request r has been answered and was a request of kind op
Done(r, op) == req[r].op = op /\ req[r].pc = "done"

\* the step is a step of request r, a request of kind op
StepOf(r, op) == (req[r].op = op \/ req'[r].op = op) /\ req'[r] # req[r]

\* the rows of key k
RowsOf(k) == {row \in api_keys : row.api_key = k}

\* the instant a stored row expires
ExpiredAt(row) == row.expired[1] * MsPerSec + row.expired[2]

(* C1: a resolve whose SELECT did not fail answers by the record it read and
   the instant it read the clock: invalid (404) when the key had no record,
   else deleted when the record's flag is set, whatever its expiration, else
   expired when now > expiredAt, else valid; and no step of a resolve request
   changes api_keys or activity_logs. *)
C1_Precedence ==
  \A r \in Req :
    Done(r, "get") /\ ~req[r].faulted =>
      /\ ~req[r].existed => req[r].status = "invalid" /\ req[r].code = 404
      /\ req[r].existed => req[r].rows # {}
      /\ \A row \in req[r].rows :
           /\ req[r].code = 200
           /\ row.api_key = req[r].api_key
           /\ row.deleted => req[r].status = "deleted"
           /\ ~row.deleted /\ req[r].t > ExpiredAt(row) => req[r].status = "expired"
           /\ ~row.deleted /\ req[r].t <= ExpiredAt(row) => req[r].status = "valid"

C1_NoSideEffect ==
  \A r \in Req :
    StepOf(r, "get") => api_keys' = api_keys /\ activity_logs' = activity_logs

\* C1: the answer follows the precedence, and resolve writes nothing
C1_Resolve == []C1_Precedence /\ [][C1_NoSideEffect]_vars

\* a resolve answered deleted for a record that is deleted and past its expiration
C1_Witness ==
  \E r \in Req :
    /\ Done(r, "get") /\ ~req[r].faulted /\ req[r].status = "deleted"
    /\ \E row \in req[r].rows : row.deleted /\ req[r].t > ExpiredAt(row)

(* C2: a resolve that ran after a register of its key was answered 200, with
   no markDeleted request for the key begun before it, and whose SELECT did
   not fail, answers valid when now <= the instant given to that register
   (now = that instant included) and expired when now > it. *)
C2_Boundary ==
  \A r \in Req :
    Done(r, "get") /\ ~req[r].faulted
      /\ req[r].seen.expiredAt # NaN /\ ~req[r].seen.delBegun =>
        req[r].status = IF req[r].t > req[r].seen.expiredAt THEN "expired" ELSE "valid"

\* a resolve at exactly the instant given to register, answered valid
C2_Witness ==
  \E r \in Req :
    /\ Done(r, "get") /\ ~req[r].faulted /\ ~req[r].seen.delBegun
    /\ req[r].seen.expiredAt = req[r].t /\ req[r].status = "valid"

(* C3: a register with a valid body for a key that had a record when the
   request began, and none of whose statements failed, is answered 409; and
   no step of such a request changes api_keys or activity_logs. *)
C3_Conflict ==
  \A r \in Req :
    Done(r, "add") /\ req[r].existed /\ ~req[r].faulted /\ req[r].code # 400 =>
      req[r].code = 409

C3_Unchanged ==
  \A r \in Req :
    StepOf(r, "add") /\ (req[r].existed \/ req'[r].existed) =>
      api_keys' = api_keys /\ activity_logs' = activity_logs

\* C3: 409 for an existing key, and the tables are left as they were
C3_RegisterExisting == []C3_Conflict /\ [][C3_Unchanged]_vars

\* a register answered 409 for a key whose record is soft-deleted
C3_Witness ==
  \E r \in Req :
    /\ Done(r, "add") /\ req[r].existed /\ ~req[r].faulted /\ req[r].code = 409
    /\ \E row \in RowsOf(req[r].api_key) : row.deleted

(* C4: under every interleaving of register requests for one key, the key
   has at most one row and at most one request is answered 200; a register
   with a valid body none of whose statements failed is answered 200 or 409,
   never 500; and once every register for a key that was unused is answered
   and no statement of any of them failed, exactly one was answered 200. *)
C4_ConcurrentRegister ==
  \A k \in Keys :
    /\ Cardinality(RowsOf(k)) <= 1
    /\ hist[k].ok <= 1
    /\ \A r \in Req :
         Done(r, "add") /\ req[r].api_key = k /\ ~req[r].faulted /\ req[r].code # 400 =>
           req[r].code \in {200, 409}
    /\ hist[k].added /\ ~hist[k].faulted
         /\ (\A r \in Req : req[r].op = "add" /\ req[r].api_key = k => req[r].pc = "done") =>
           hist[k].ok = 1

\* two registers of an unused key raced: both answered, one 200 and one 409
C4_Witness ==
  \E r1, r2 \in Req :
    /\ Done(r1, "add") /\ Done(r2, "add") /\ req[r1].api_key = req[r2].api_key
    /\ ~req[r1].existed /\ ~req[r2].existed
    /\ req[r1].code = 200 /\ req[r2].code = 409

(* C5: a resolve that ran after a markDeleted of its key was answered 200,
   and whose SELECT did not fail, answers deleted, before and after the
   record's expiration; a markDeleted that ran after one was answered 200,
   none of whose statements failed, is answered 200 too, and none of its
   steps changes api_keys. *)
C5_Deleted ==
  \A r \in Req :
    /\ Done(r, "get") /\ ~req[r].faulted /\ req[r].seen.deleted =>
         req[r].status = "deleted" /\ req[r].code = 200
    /\ Done(r, "deleted") /\ ~req[r].faulted /\ req[r].seen.deleted =>
         req[r].code = 200

C5_Idempotent ==
  \A r \in Req :
    StepOf(r, "deleted") /\ (req[r].seen.deleted \/ req'[r].seen.deleted) =>
      api_keys' = api_keys

\* C5: deleted after markDeleted, and a repeated markDeleted changes no row
C5_MarkDeleted == []C5_Deleted /\ [][C5_Idempotent]_vars

\* a second markDeleted was answered 200, and a resolve after the first
\* answered deleted before the record's expiration
C5_Witness ==
  /\ \E r \in Req : Done(r, "deleted") /\ req[r].seen.deleted /\ req[r].code = 200
  /\ \E r \in Req :
       /\ Done(r, "get") /\ req[r].seen.deleted /\ req[r].status = "deleted"
       /\ \E row \in req[r].rows : req[r].t < ExpiredAt(row)

(* C6: in every step, every row stays: the rows of its key are then rows of
   the same expired and created_at, and deleted if it was deleted. *)
C6_Step ==
  \A row \in api_keys :
    /\ \E row2 \in api_keys' : row2.api_key = row.api_key
    /\ \A row2 \in api_keys' :
         row2.api_key = row.api_key =>
           /\ row2.expired = row.expired
           /\ row2.created_at = row.created_at
           /\ row.deleted => row2.deleted

\* C6: deleted is never cleared, expired and created_at never change
C6_Monotonic == [][C6_Step]_vars

\* a register was answered for a key whose record is deleted
C6_Witness ==
  \E r \in Req :
    /\ Done(r, "add") /\ req[r].existed /\ req[r].code # 400
    /\ \E row \in RowsOf(req[r].api_key) : row.deleted

(* C7: a register answered 200 has a row of its key in api_keys and exactly
   one add row of its key in activity_logs. *)
C7_SuccessPersisted ==
  \A r \in Req :
    Done(r, "add") /\ req[r].code = 200 =>
      /\ RowsOf(req[r].api_key) # {}
      /\ Cardinality({i \in 1..Len(activity_logs) :
                        /\ activity_logs[i].action = "add"
                        /\ activity_logs[i].api_key = req[r].api_key}) = 1

(* C8, as the code has it: activity_logs keeps every row (no step removes or
   changes one); listLogs answers with at most 100 rows, exactly 100 once
   activity_logs holds more, all of them rows of activity_logs, ordered by
   time descending (most recent first), and every row whose time is later
   than the oldest time answered is among them. *)
C8_Listing ==
  \A r \in Req :
    Done(r, "logs") /\ ~req[r].faulted =>
      LET out == req[r].logs
          n == req[r].count
          stored == {LogColumns(activity_logs[i]) : i \in 1..n}
          later(rows, len, m) == Cardinality({i \in 1..len : TimeLess(m, rows[i].time)})
      IN /\ Len(out) = (IF n < LogLimit THEN n ELSE LogLimit)
         /\ \A p \in 1..Len(out) : out[p] \in stored
         /\ \A p \in 1..(Len(out) - 1) : ~TimeLess(out[p].time, out[p + 1].time)
         /\ Len(out) > 0 =>
              later(out, Len(out), out[Len(out)].time)
                = later(activity_logs, n, out[Len(out)].time)

C8_Kept ==
  /\ Len(activity_logs') >= Len(activity_logs)
  /\ SubSeq(activity_logs', 1, Len(activity_logs)) = activity_logs

C9_FailureReported ==
  \A r \in Req : req[r].pc = "done" /\ req[r].faulted => req[r].code = 500


(* C10 (file-backed variant): a resolve answers invalid (404, not deleted)
   exactly when its key has no record, so at any time after a purge and
   before a new register; a register with a valid body for a key with no
   record, purged before or not, is answered 200; a purge of a key with a
   record removes the record, appends a log row with action delete and is
   answered 200; a purge of a key with no record is answered 404 and changes
   nothing. *)
C10_Answers ==
  /\ Done(1, "get") => (req[1].status = "invalid" <=> RowsOf(req[1].api_key) = {})
  /\ Done(1, "get") /\ req[1].seen.purged => req[1].status = "invalid" /\ req[1].code = 404
  /\ Done(1, "add") /\ ~req[1].existed /\ req[1].code # 400 => req[1].code = 200

C10_PurgeStep ==
  \A k \in Keys :
    writes' # writes /\ req'[1].op = "purge" /\ req'[1].api_key = k =>
      IF RowsOf(k) # {}
      THEN /\ req'[1].code = 200
           /\ \A row \in api_keys' : row.api_key # k
           /\ \A row \in api_keys : row.api_key # k => row \in api_keys'
           /\ Len(activity_logs') = Len(activity_logs) + 1
           /\ activity_logs'[Len(activity_logs')].action = "delete"
           /\ activity_logs'[Len(activity_logs')].api_key = k
      ELSE /\ req'[1].code = 404
           /\ api_keys' = api_keys /\ activity_logs' = activity_logs

\* C10: the answers after a purge, and what a purge step does
C10_Purge == []C10_Answers /\ [][C10_PurgeStep]_vars

\* a key that was registered, then purged, is registered again: answered 200
C10_Witness ==
  /\ Done(1, "add") /\ req[1].seen.purged /\ req[1].code = 200
  /\ \E i \in 1..Len(activity_logs) : activity_logs[i].action = "delete"

(* C11: a register whose body has no api_key (absent or empty), or no
   expired_time, or an expired_time that does not parse to an instant, is
   answered 400 in the step it arrives in, before any storage statement: no
   statement of it is ever awaited, whatever api_keys holds for its key, and
   no step of it changes api_keys or activity_logs. *)
C11_Invalid(q) ==
  \/ q.body.api_key = ""
  \/ q.body.expired_time.kind = "absent"
  \/ q.body.expired_time.ms = NaN

C11_Answer ==
  \A r \in Req :
    req[r].op = "add" /\ C11_Invalid(req[r]) =>
      req[r].pc = "done" /\ req[r].code = 400 /\ ~req[r].faulted

C11_NoWrite ==
  \A r \in Req :
    StepOf(r, "add") /\ (C11_Invalid(req[r]) \/ C11_Invalid(req'[r])) =>
      api_keys' = api_keys /\ activity_logs' = activity_logs /\ faults' = faults

\* C11: 400 for an invalid body, with no storage statement and no write
C11_Validation == []C11_Answer /\ [][C11_NoWrite]_vars

\* a register naming a key that has a record, with an expired_time that does
\* not parse, was answered 400 (not 409)
C11_Witness ==
  \E r \in Req :
    /\ Done(r, "add") /\ req[r].code = 400 /\ req[r].existed
    /\ req[r].body.api_key # "" /\ req[r].body.expired_time.kind = "text"
    /\ req[r].body.expired_time.ms = NaN

(* C12: a register answered with an error (400, 409 or 500) for a key that
   had no record when the request began leaves the key without a record,
   unless another register of the key is in flight or was answered 200: the
   failed attempt itself stores nothing, so a retry is not answered 409. *)
C12_ErrorLeavesStore ==
  \A r \in Req :
    LET k == req[r].api_key IN
    /\ Done(r, "add") /\ req[r].code \in {400, 409, 500}
    /\ k \in Keys /\ ~req[r].existed /\ hist[k].ok = 0
    /\ \A r2 \in Req \ {r} : ~(req[r2].op = "add" /\ req[r2].api_key = k)
    => RowsOf(k) = {}

(* C13: in activity_logs, every deleted row of a key comes after the key's
   add row and carries no earlier time than it; and when no register or
   markDeleted request is in flight, every key with a deleted row has an add
   row. *)
C13_DeletedAfterAdd ==
  LET Rows(action, k) == {i \in 1..Len(activity_logs) :
                           /\ activity_logs[i].action = action
                           /\ activity_logs[i].api_key = k}
  IN \A k \in Keys :
       /\ \A d \in Rows("deleted", k), a \in Rows("add", k) :
            a < d /\ ~TimeLess(activity_logs[d].time, activity_logs[a].time)
       /\ (\A r \in Req : req[r].op \in {"add", "deleted"} => req[r].pc = "done")
            /\ Rows("deleted", k) # {}
            => Rows("add", k) # {}

====
